---- MODULE Spec2Model ----
(***************************************************************************)
(* A model of pyutils.dijkstra.dijkstra (src/pyutils/dijkstra.py): a lazy  *)
(* best-first search over a graph that the caller supplies through         *)
(* get_edges, with re-insertion instead of decrease-key, a goal test at    *)
(* pop time and a backward walk over the predecessor records.              *)
(*                                                                         *)
(* The graph is never materialised by the code: get_edges(node) is called  *)
(* at line 54 when node is expanded.  The model draws the list that call   *)
(* yields at that moment and records it in edges, so a run of the model is *)
(* a run of the code on the graph whose never-expanded nodes yield nothing.*)
(*                                                                         *)
(* The module also models OptimumTracker (optimum_tracker.py), Interval    *)
(* (intervals.py), hex coordinates (geo2d.py, geometry/hex2d.py)           *)
(* and CumulativeTimer (timer.py), each under a specification of its own.  *)
(***************************************************************************)
EXTENDS Integers, Sequences, FiniteSets, Bags, TLC

\* Bounds of the model.
MaxEdges == 3   \* triples yielded by all get_edges calls of one run
MaxWalk == 4    \* steps of the backward walk that the model follows

\* Small input sets: node values (ordered, as the heap compares them on a
\* cost tie), edge costs (non-negative) and start_cost baselines.
Nodes == {1, 2, 3}
EdgeCosts == {0, 1}
StartCosts == {-2, 0, 1}

\* The node values of the concrete scenario of SpecA, and all node values.
ScenarioNodes == {1, 2, 3, 4}
AllNodes == Nodes \cup ScenarioNodes

\* Python's None: the unset goal and goal_cost, and the absent result.
None == [type |-> "NoneType"]

VARIABLES
    start, start_cost, goals,   \* the arguments: start, start_cost, is_goal
    orderable,                  \* whether the node type supports <
    graph,                      \* get_edges when it is fixed in advance, or None
    edges,                      \* get_edges as called so far: node -> list
    asked,                      \* the nodes get_edges has been called on
    calls,                      \* number of get_edges calls per node, this call
    predecessor, queue, irrelevant_nodes,
    goal, goal_cost, found_goal,
    pc,                         \* "loop", "for", "walk", "done", or how the
                                \* call ended: "KeyError", "TypeError", "raised"
    cost, node,                 \* the entry popped at line 44
    i,                          \* position of the for loop of line 54
    path, n,                    \* the walk of lines 64-70
    result,                     \* the value returned
    settled_cost,               \* cost with which each node was expanded
    yielded,                    \* <<neighbor, new_cost>> computed at line 55
    popped,                     \* the entries popped at line 44, in order
    failure,                    \* the collaborator call that failed, or None
    call_no, first_result,      \* which call this is; what the first returned
    tracker, tracker_ret,       \* an OptimumTracker and its last return value
    offered,                    \* the calls made on the tracker so far
    app,                        \* the last application of a pure function
    timer, timer_ret,           \* a CumulativeTimer and its last call
    clock,                      \* what time.time() returned last
    starts, stops,              \* the start and stop calls that succeeded
    depth                       \* with-blocks of the timer entered, not left

\* The arguments of a dijkstra call.
inputs == <<start, start_cost, goals, orderable, graph>>

\* The state of a CumulativeTimer and of its caller.
timer_vars == <<timer, timer_ret, clock, starts, stops, depth>>

\* The state of the other components.
others == <<tracker, tracker_ret, offered, app, timer_vars>>

vars == <<inputs, edges, asked, calls, predecessor, queue, irrelevant_nodes,
          goal, goal_cost, found_goal, pc, cost, node, i, path, n, result,
          settled_cost, yielded, popped, failure, call_no, first_result,
          others>>

\* is_goal(x): the caller's pure predicate, here membership in goals.
is_goal(x) == x \in goals

\* A comparison that puts the dearest entry first.
EntryLt_Reversed(a, b) == a[1] > b[1] \/ (a[1] = b[1] /\ a[2] > b[2])

\* (cost, node) < (cost, node) as Python compares tuples: the first position
\* that differs decides, so nodes are compared only when the costs are equal.
EntryLt(a, b) == a[1] < b[1] \/ (a[1] = b[1] /\ a[2] < b[2])

\* That comparison raises TypeError: equal costs, different nodes, no <.
EntryLtRaises(a, b) == ~orderable /\ a[1] = b[1] /\ a[2] # b[2]

\* A heap operation ends with the heap it leaves, or raises TypeError.
Left(heap) == [raised |-> FALSE, heap |-> heap]
Raised(heap) == [raised |-> TRUE, heap |-> heap]

\* heapq._siftdown(heap, startpos, pos), positions counted from 0.
RECURSIVE siftdown(_, _, _, _)
siftdown(heap, startpos, pos, newitem) ==
    IF pos > startpos
    THEN LET parentpos == (pos - 1) \div 2
             parent == heap[parentpos + 1]
         IN IF EntryLtRaises(newitem, parent) THEN Raised(heap)
            ELSE IF EntryLt(newitem, parent)
                 THEN siftdown([heap EXCEPT ![pos + 1] = parent],
                               startpos, parentpos, newitem)
                 ELSE Left([heap EXCEPT ![pos + 1] = newitem])
    ELSE Left([heap EXCEPT ![pos + 1] = newitem])

\* heapq._siftup(heap, pos) for pos = 0, positions counted from 0.
RECURSIVE siftup(_, _, _)
siftup(heap, pos, newitem) ==
    LET endpos == Len(heap)
        childpos == 2 * pos + 1
        rightpos == childpos + 1
    IN IF childpos < endpos
       THEN IF rightpos < endpos
               /\ EntryLtRaises(heap[childpos + 1], heap[rightpos + 1])
            THEN Raised(heap)
            ELSE LET c == IF rightpos < endpos
                             /\ ~EntryLt(heap[childpos + 1], heap[rightpos + 1])
                          THEN rightpos ELSE childpos
                 IN siftup([heap EXCEPT ![pos + 1] = heap[c + 1]], c, newitem)
       ELSE siftdown([heap EXCEPT ![pos + 1] = newitem], 0, pos, newitem)

\* heappop(queue): the entry it returns, the root of the heap.
heappop(heap) == heap[1]

\* heappop(queue): what it leaves.
heappop_left(heap) ==
    LET lastelt == heap[Len(heap)]
        rest == SubSeq(heap, 1, Len(heap) - 1)
    IN IF rest = <<>> THEN Left(rest) ELSE siftup(rest, 0, lastelt)

\* A push that appends to the list and does not sift.
heappush_Append(heap, entry) == Left(Append(heap, entry))

\* A push that puts the entry on the heap twice.
heappush_Twice(heap, entry) ==
    LET once == siftdown(Append(heap, entry), 0, Len(heap), entry)
    IN IF once.raised THEN once
       ELSE siftdown(Append(once.heap, entry), 0, Len(once.heap), entry)

\* heappush(queue, entry): what it leaves.
heappush(heap, entry) == siftdown(Append(heap, entry), 0, Len(heap), entry)

\* The lists a get_edges call may yield when k more triples fit the bound:
\* triples (neighbor, edge_cost, edge), the edge label being the position.
EdgeLists(k) ==
    UNION {[1..m -> Nodes \X EdgeCosts] : m \in 0..k}

Labelled(es) == [j \in 1..Len(es) |-> <<es[j][1], es[j][2], j>>]

RECURSIVE SumLen(_, _)
SumLen(f, S) ==
    IF S = {} THEN 0
    ELSE LET x == CHOOSE y \in S : TRUE IN Len(f[x]) + SumLen(f, S \ {x})

Yielded == SumLen(edges, AllNodes)

\* get_edges(x): a pure function of the caller.  A node asked before yields
\* what it yielded then; a fixed graph yields its list; otherwise the list
\* is drawn now.
get_edges(x) ==
    IF x \in asked THEN {edges[x]}
    ELSE IF graph # None THEN {Labelled(graph[x])}
    ELSE {Labelled(es) : es \in EdgeLists(MaxEdges - Yielded)}

\* A test that never records a neighbor seen for the first time.
Improves_KnownOnly(neighbor, new_cost) ==
    neighbor \in DOMAIN predecessor /\ new_cost < predecessor[neighbor][2]

\* A test that records a neighbor only when it is seen for the first time.
Improves_FirstOnly(neighbor, new_cost) ==
    neighbor \notin DOMAIN predecessor

\* A test that records every neighbor yielded.
Improves_Always(neighbor, new_cost) == TRUE

\* Line 56: the test that decides whether a neighbor is (re)recorded.
Improves(neighbor, new_cost) ==
    neighbor \notin DOMAIN predecessor \/ new_cost < predecessor[neighbor][2]

\* A settled set that is never consulted.
Processed_Never(x) == FALSE

\* Line 50: node in irrelevant_nodes
Processed(x) == x \in irrelevant_nodes

\* A failure of a collaborator that is caught, the loop going on.
AfterFailure_Swallowed == "loop"

\* Lines 45 and 54: no handler surrounds the calls of is_goal and get_edges,
\* so an exception of either ends the call.
AfterFailure == "raised"

\* The other components, not in use during a dijkstra call.
TimerIdle ==
    /\ timer = None
    /\ timer_ret = None
    /\ clock = 0
    /\ starts = 0
    /\ stops = 0
    /\ depth = 0

OthersIdle ==
    /\ tracker = None
    /\ tracker_ret = None
    /\ offered = {}
    /\ app = None
    /\ TimerIdle

\* Lines 30-41 for the given arguments.
Entry ==
    /\ edges = [x \in AllNodes |-> <<>>]
    /\ asked = {}
    /\ calls = [x \in AllNodes |-> 0]
    /\ predecessor = <<>>
    /\ queue = <<<<start_cost, start>>>>
    /\ irrelevant_nodes = {}
    /\ goal = None
    /\ goal_cost = None
    /\ found_goal = FALSE
    /\ pc = "loop"
    /\ cost = None
    /\ node = None
    /\ i = 0
    /\ path = <<>>
    /\ n = None
    /\ result = None
    /\ settled_cost = <<>>
    /\ yielded = {}
    /\ popped = <<>>
    /\ failure = None
    /\ call_no = 1
    /\ first_result = None

Init ==
    /\ start \in Nodes
    /\ start_cost \in StartCosts
    /\ goals \in SUBSET Nodes
    /\ orderable \in BOOLEAN
    /\ graph = None
    /\ Entry
    /\ OthersIdle

\* Lines 43-44: the loop pops an entry and heappop raises nothing.
Pops ==
    /\ pc = "loop"
    /\ queue # <<>>
    /\ ~heappop_left(queue).raised

\* Line 44: cost, node = heappop(queue)
Popping ==
    /\ queue' = heappop_left(queue).heap
    /\ cost' = heappop(queue)[1]
    /\ node' = heappop(queue)[2]
    /\ popped' = Append(popped, heappop(queue))

\* Line 44: heappop compares two nodes that have no order.
PopTypeError ==
    /\ pc = "loop"
    /\ queue # <<>>
    /\ heappop_left(queue).raised
    /\ pc' = "TypeError"
    /\ UNCHANGED <<inputs, others, edges, asked, calls, predecessor, queue,
                   irrelevant_nodes, goal, goal_cost, found_goal, cost, node,
                   i, path, n, result, settled_cost, yielded, popped, failure,
                   call_no, first_result>>

\* Lines 43-49 and 60-66: pop a goal node, break, start the walk.
PopGoal ==
    /\ Pops
    /\ is_goal(heappop(queue)[2])
    /\ Popping
    /\ goal' = heappop(queue)[2]
    /\ goal_cost' = heappop(queue)[1]
    /\ found_goal' = TRUE
    /\ path' = <<>>
    /\ n' = heappop(queue)[2]
    /\ pc' = "walk"
    /\ UNCHANGED <<inputs, others, edges, asked, calls, predecessor,
                   irrelevant_nodes, i, result, settled_cost, yielded, failure,
                   call_no, first_result>>

\* Lines 43-51: pop an entry of a node that was expanded before; continue.
PopStale ==
    /\ Pops
    /\ ~is_goal(heappop(queue)[2])
    /\ Processed(heappop(queue)[2])
    /\ Popping
    /\ UNCHANGED <<inputs, others, edges, asked, calls, predecessor,
                   irrelevant_nodes, goal, goal_cost, found_goal, pc, i,
                   path, n, result, settled_cost, yielded, failure, call_no,
                   first_result>>

\* Lines 43-54: pop a fresh node, mark it, call get_edges on it.
PopExpand ==
    /\ Pops
    /\ ~is_goal(heappop(queue)[2])
    /\ ~Processed(heappop(queue)[2])
    /\ Popping
    /\ irrelevant_nodes' = irrelevant_nodes \cup {node'}
    /\ settled_cost' = (node' :> cost') @@ settled_cost
    /\ calls' = [calls EXCEPT ![node'] = @ + 1]
    /\ asked' = asked \cup {node'}
    /\ \E es \in get_edges(node') :
        /\ edges' = [edges EXCEPT ![node'] = es]
        /\ i' = 1
        /\ pc' = IF Len(es) = 0 THEN "loop" ELSE "for"
    /\ UNCHANGED <<inputs, others, predecessor, goal, goal_cost, found_goal,
                   path, n, result, yielded, failure, call_no, first_result>>

\* Lines 45 and 54: is_goal(node) or get_edges(node) raises.  Both are pure:
\* neither fails on a node it has answered for before.
CollaboratorFails ==
    /\ Pops
    /\ call_no = 1
    /\ Popping
    /\ \/ /\ \A k \in DOMAIN popped : popped[k][2] # node'
          /\ failure' = <<"is_goal", node'>>
          /\ UNCHANGED <<irrelevant_nodes, settled_cost, calls, asked>>
       \/ /\ ~is_goal(node')
          /\ ~Processed(node')
          /\ node' \notin asked
          /\ failure' = <<"get_edges", node'>>
          /\ irrelevant_nodes' = irrelevant_nodes \cup {node'}
          /\ settled_cost' = (node' :> cost') @@ settled_cost
          /\ calls' = [calls EXCEPT ![node'] = @ + 1]
          /\ asked' = asked
    /\ pc' = AfterFailure
    /\ UNCHANGED <<inputs, others, edges, predecessor, goal, goal_cost,
                   found_goal, i, path, n, result, yielded, call_no,
                   first_result>>

\* Lines 54-58: one iteration of the for loop over get_edges(node).
Relax ==
    /\ pc = "for"
    /\ LET neighbor == edges[node][i][1]
           edge_cost == edges[node][i][2]
           edge == edges[node][i][3]
           new_cost == cost + edge_cost
           raises == Improves(neighbor, new_cost)
                     /\ heappush(queue, <<new_cost, neighbor>>).raised
       IN
        /\ yielded' = yielded \cup {<<neighbor, new_cost>>}
        /\ IF Improves(neighbor, new_cost)
           THEN /\ predecessor' =
                       (neighbor :> <<node, edge_cost, edge>>) @@ predecessor
                /\ queue' = IF raises THEN queue
                            ELSE heappush(queue, <<new_cost, neighbor>>).heap
           ELSE UNCHANGED <<predecessor, queue>>
        /\ IF raises
           THEN /\ pc' = "TypeError"
                /\ i' = i
           ELSE IF i = Len(edges[node])
           THEN /\ pc' = "loop"
                /\ i' = i
           ELSE /\ pc' = "for"
                /\ i' = i + 1
    /\ UNCHANGED <<inputs, others, edges, asked, calls, irrelevant_nodes,
                   goal, goal_cost, found_goal, cost, node, path, n, result,
                   settled_cost, popped, failure, call_no, first_result>>

\* Lines 43 and 60-61: the queue is empty and no goal was popped.
ReturnNone ==
    /\ pc = "loop"
    /\ queue = <<>>
    /\ ~found_goal
    /\ result' = None
    /\ pc' = "done"
    /\ UNCHANGED <<inputs, others, edges, asked, calls, predecessor, queue,
                   irrelevant_nodes, goal, goal_cost, found_goal, cost, node,
                   i, path, n, settled_cost, yielded, popped, failure,
                   call_no, first_result>>

\* A walk condition that stops where the records stop instead of at start.
WalkContinues_ByRecord == n \in DOMAIN predecessor

\* A walk that does not stop at start.
WalkContinues_PastStart == TRUE

\* Line 67: while n != start
WalkContinues == n # start

\* Lines 67-70: one step of the backward walk.  predecessor[n] of a node
\* without a record raises KeyError.
WalkStep ==
    /\ pc = "walk"
    /\ WalkContinues
    /\ Len(path) < MaxWalk
    /\ IF n \in DOMAIN predecessor
       THEN /\ path' = Append(path, <<predecessor[n][1], predecessor[n][2],
                                      predecessor[n][3], n>>)
            /\ n' = predecessor[n][1]
            /\ pc' = "walk"
       ELSE /\ pc' = "KeyError"
            /\ UNCHANGED <<path, n>>
    /\ UNCHANGED <<inputs, others, edges, asked, calls, predecessor, queue,
                   irrelevant_nodes, goal, goal_cost, found_goal, cost, node,
                   i, result, settled_cost, yielded, popped, failure,
                   call_no, first_result>>

\* A walk whose steps are left in goal-to-start order.
Reversed_Not(s) == s

\* Line 71: path.reverse()
Reversed(s) == [k \in 1..Len(s) |-> s[Len(s) + 1 - k]]

\* A node list that leaves out start.
PathNodes_NoStart(s) == [k \in 1..Len(s) |-> s[k][4]]

\* Line 74: list(chain((start,), (n for _, _, _, n in path)))
PathNodes(s) == <<start>> \o [k \in 1..Len(s) |-> s[k][4]]

\* Lines 67 and 71-77: the walk has reached start; reverse and return.
ReturnFound ==
    /\ pc = "walk"
    /\ ~WalkContinues
    /\ path' = Reversed(path)
    /\ result' = <<PathNodes(path'), goal_cost, path'>>
    /\ pc' = "done"
    /\ UNCHANGED <<inputs, others, edges, asked, calls, predecessor, queue,
                   irrelevant_nodes, goal, goal_cost, found_goal, cost, node,
                   i, n, settled_cost, yielded, popped, failure, call_no,
                   first_result>>

Next ==
    \/ PopTypeError
    \/ PopGoal
    \/ PopStale
    \/ PopExpand
    \/ CollaboratorFails
    \/ Relax
    \/ ReturnNone
    \/ WalkStep
    \/ ReturnFound

Spec == Init /\ [][Next]_vars

-----------------------------------------------------------------------------
(* The graph that get_edges has shown so far, and what it implies.          *)

\* The edges <<from, to, edge_cost>> yielded by the get_edges calls so far.
EdgeSet ==
    UNION {{<<u, edges[u][j][1], edges[u][j][2]>> : j \in DOMAIN edges[u]} :
           u \in AllNodes}

Min(S) == CHOOSE m \in S : \A y \in S : m <= y

\* One round of relaxing every edge: D maps the nodes reached so far to the
\* least cost found so far of a path from start.
Round(D) ==
    LET into(x) == {D[t[1]] + t[3] : t \in {s \in EdgeSet : s[2] = x /\ s[1] \in DOMAIN D}}
        known(x) == IF x \in DOMAIN D THEN {D[x]} ELSE {}
        reached == {x \in AllNodes : into(x) \cup known(x) # {}}
    IN [x \in reached |-> Min(into(x) \cup known(x))]

RECURSIVE Rounds(_, _)
Rounds(D, k) == IF k = 0 THEN D ELSE Rounds(Round(D), k - 1)

\* Dist[x]: the minimum over all paths from start to x of start_cost plus
\* the sum of the path's edge costs; its domain is the set of nodes
\* reachable from start.  Costs are non-negative, so a cheapest path is
\* simple and Cardinality(Nodes) rounds find it.
Dist == Rounds((start :> start_cost), Cardinality(AllNodes))

Reachable == DOMAIN Dist

GoalReachable == \E g \in Reachable : is_goal(g)

Found == pc = "done" /\ result # None

RECURSIVE SumEdgeCosts(_)
SumEdgeCosts(steps) ==
    IF steps = <<>> THEN 0 ELSE Head(steps)[2] + SumEdgeCosts(Tail(steps))

-----------------------------------------------------------------------------
(* C1: the total cost of a found result is the minimum, over all paths from *)
(* start to any goal node, of start_cost plus the path's edge costs.        *)
C1_CostIsMinimal ==
    Found => result[2] = Min({Dist[g] : g \in {x \in Reachable : is_goal(x)}})

(* C2: start_cost plus the sum of the edge_cost fields of the returned      *)
(* steps equals the returned total cost, for any start_cost.                *)
C2_StepsSumToCost ==
    Found => start_cost + SumEdgeCosts(result[3]) = result[2]

(* C3: a found result with at least one step starts at start, ends at the   *)
(* popped goal, chains each step's node to the next step's predecessor,     *)
(* holds only triples that get_edges yielded, and lists start followed by   *)
(* the steps' nodes.                                                        *)
C3_PathIsWellFormed ==
    (Found /\ result[3] # <<>>) =>
        LET steps == result[3] IN
        /\ steps[1][1] = start
        /\ steps[Len(steps)][4] = goal
        /\ \A k \in 1..(Len(steps) - 1) : steps[k][4] = steps[k + 1][1]
        /\ \A k \in 1..Len(steps) :
            \E j \in DOMAIN edges[steps[k][1]] :
                edges[steps[k][1]][j] = <<steps[k][4], steps[k][2], steps[k][3]>>
        /\ result[1] = <<start>> \o [k \in 1..Len(steps) |-> steps[k][4]]

C3_Witness == Found /\ Len(result[3]) >= 2

C5_WalkReachesStart ==
    /\ pc # "KeyError"
    /\ (pc = "walk" /\ n # start) => \A k \in DOMAIN path : path[k][4] # n

(* C6: if is_goal(start), the call returns ([start], start_cost, []) and    *)
(* get_edges is never called.                                               *)
C6_StartIsGoal ==
    is_goal(start) =>
        /\ \A x \in AllNodes : calls[x] = 0
        /\ pc = "done" => result = <<<<start>>, start_cost, <<>>>>

C6_Witness == pc = "done" /\ is_goal(start)

\* The accumulated cost from start implied by the predecessor record of x:
\* the cost with which the predecessor was expanded plus the edge cost.
AccumCost(x) == settled_cost[predecessor[x][1]] + predecessor[x][2]

(* C7: an iteration of the for loop replaces the neighbor's record and      *)
(* pushes (new_cost, neighbor) exactly when the neighbor has no record or   *)
(* new_cost is strictly less than the accumulated cost implied by its       *)
(* record; otherwise record and frontier stay as they are.                  *)
C7_RelaxRule ==
    [][(pc = "for" /\ pc' # "TypeError") =>
        LET neighbor == edges[node][i][1]
            edge_cost == edges[node][i][2]
            edge == edges[node][i][3]
            new_cost == cost + edge_cost
        IN IF neighbor \notin DOMAIN predecessor \/ new_cost < AccumCost(neighbor)
           THEN /\ predecessor' =
                       (neighbor :> <<node, edge_cost, edge>>) @@ predecessor
                /\ queue' = heappush(queue, <<new_cost, neighbor>>).heap
           ELSE /\ predecessor' = predecessor
                /\ queue' = queue]_vars

(* C8: the record of every node is the cheapest way to reach it discovered  *)
(* so far: its accumulated cost is the minimum of the costs computed for    *)
(* all edges into that node that expansions have yielded.                   *)
C8_RecordIsCheapest ==
    \A x \in DOMAIN predecessor :
        AccumCost(x) = Min({y[2] : y \in {z \in yielded : z[1] = x}})

C10_SettledNeverRelaxed ==
    [][(pc = "for" /\ edges[node][i][1] \in irrelevant_nodes) =>
        (predecessor' = predecessor /\ queue' = queue)]_vars

(* C11: during one call get_edges is called at most once for each node,     *)
(* however many frontier entries of that node are pushed and popped.        *)
C11_ExpandedOnce == \A x \in AllNodes : calls[x] <= 1

\* A node that is no goal has been popped twice and expanded once.
C11_Witness ==
    \E j, k \in DOMAIN popped :
        /\ j < k
        /\ popped[j][2] = popped[k][2]
        /\ ~is_goal(popped[k][2])
        /\ calls[popped[k][2]] = 1
        /\ pc = "loop"

(* C12: with nodes that support only equality and hashing, a call ends only *)
(* as found or not found and raises no error of its own, also when two      *)
(* frontier entries carry the same accumulated cost.                        *)
C12_NoErrorOfItsOwn == pc \notin {"TypeError", "KeyError"}

(* C13: once is_goal or get_edges has failed, the call has ended with that  *)
(* failure: it has returned nothing, and no step calls a collaborator       *)
(* again (is_goal is called once for each pop, get_edges once for each      *)
(* expansion).                                                              *)
C13_FailurePropagates ==
    [][failure' # None =>
        /\ pc' = "raised"
        /\ result' = None
        /\ failure # None => (popped' = popped /\ calls' = calls)]_vars

C13_Witness == failure # None /\ Len(popped) >= 2 /\ failure[1] = "get_edges"

\* ---- Scenario A: a fixed graph with nodes S, A, B, G --------------------

\* The orders in which a collaborator may yield the edges of the set E.
Orders(E) ==
    {es \in [1..Cardinality(E) -> E] : {es[j] : j \in DOMAIN es} = E}

\* Edges S->A(1), S->B(4), A->B(1), A->G(5), B->G(1); so and ao are the
\* orders in which the edges of S and of A are yielded.
ScenarioA(S, A, B, G, so, ao) ==
    [x \in AllNodes |->
        IF x = S THEN so
        ELSE IF x = A THEN ao
        ELSE IF x = B THEN <<<<G, 1>>>>
        ELSE <<>>]

\* A call on scenario A with the default start_cost (line 28), for every
\* naming of the four nodes and every order of the yielded edges.
InitA ==
    /\ orderable \in BOOLEAN
    /\ start_cost = 0
    /\ \E S, A, B, G \in ScenarioNodes :
          /\ Cardinality({S, A, B, G}) = 4
          /\ start = S
          /\ goals = {G}
          /\ \E so \in Orders({<<A, 1>>, <<B, 4>>}),
                ao \in Orders({<<B, 1>>, <<G, 5>>}) :
                graph = ScenarioA(S, A, B, G, so, ao)
    /\ Entry
    /\ OthersIdle

\* The collaborators of scenario A do not fail; PopTypeError, PopStale and
\* ReturnNone are never enabled on this graph.
NextA ==
    \/ PopGoal
    \/ PopExpand
    \/ Relax
    \/ WalkStep
    \/ ReturnFound

SpecA == InitA /\ [][NextA]_vars

\* The nodes A, B and G of the scenario, read back from the inputs.
NodeA == CHOOSE x \in AllNodes :
            \E j \in DOMAIN graph[start] : graph[start][j] = <<x, 1>>
NodeB == CHOOSE x \in AllNodes :
            \E j \in DOMAIN graph[start] : graph[start][j] = <<x, 4>>
NodeG == CHOOSE x \in goals : TRUE

(* C15: on scenario A the call raises nothing and, once it has ended, has   *)
(* returned the node list [S, A, B, G] with total cost 3.                   *)
C15_ScenarioA ==
    /\ pc \notin {"TypeError", "KeyError"}
    /\ pc = "done" =>
          /\ result # None
          /\ result[1] = <<start, NodeA, NodeB, NodeG>>
          /\ result[2] = 3

C15_Witness == pc = "done" /\ graph # None /\ Len(popped) = 4

\* ---- Two calls with the same arguments ----------------------------------

\* A settled set that a second call would inherit from the first.
FreshSet_Shared == irrelevant_nodes

\* Line 37: irrelevant_nodes = set(), a new set in every call.
FreshSet == {}

\* The way a call has ended: returned (with its result) or raised.
Outcome == <<pc, result>>

\* Triples that the graphs of the two-call specification hold in all.
TwiceEdges == 3

\* The graph in which nodes 1, 2 and 3 yield the lists a, b and c.
GraphOf(a, b, c) ==
    [x \in AllNodes |->
        IF x = 1 THEN a ELSE IF x = 2 THEN b ELSE IF x = 3 THEN c ELSE <<>>]

\* A first call on a deterministic get_edges, default start_cost.
InitTwice ==
    /\ start \in Nodes
    /\ start_cost = 0
    /\ goals \in {{}, {3}}
    /\ orderable \in BOOLEAN
    /\ \E a \in EdgeLists(TwiceEdges) :
          \E b \in EdgeLists(TwiceEdges - Len(a)) :
             \E c \in EdgeLists(TwiceEdges - Len(a) - Len(b)) :
                graph = GraphOf(a, b, c)
    /\ Entry
    /\ OthersIdle

\* The caller calls dijkstra again with the same arguments after the first
\* call has returned or raised: lines 30-41 run again.  The collaborators
\* are the same functions, so what they yielded stays (edges, asked).
CallAgain ==
    /\ call_no = 1
    /\ pc \in {"done", "TypeError", "KeyError"}
    /\ call_no' = 2
    /\ first_result' = Outcome
    /\ predecessor' = <<>>
    /\ queue' = <<<<start_cost, start>>>>
    /\ irrelevant_nodes' = FreshSet
    /\ goal' = None
    /\ goal_cost' = None
    /\ found_goal' = FALSE
    /\ pc' = "loop"
    /\ cost' = None
    /\ node' = None
    /\ i' = 0
    /\ path' = <<>>
    /\ n' = None
    /\ result' = None
    /\ calls' = [x \in AllNodes |-> 0]
    /\ settled_cost' = <<>>
    /\ yielded' = {}
    /\ popped' = <<>>
    /\ UNCHANGED <<inputs, others, edges, asked, failure>>

NextTwice ==
    \/ Next
    \/ CallAgain

SpecTwice == InitTwice /\ [][NextTwice]_vars

MaxOffers == 3

\* Floats: finite values, math.inf, -math.inf and NaN.
Fin(v) == [k |-> "fin", v |-> v]
PosInf == [k |-> "inf", v |-> 0]
NegInf == [k |-> "-inf", v |-> 0]
NaN == [k |-> "nan", v |-> 0]

Evaluations == {Fin(0), Fin(1), Fin(2), PosInf, NegInf, NaN}

Candidates == {[candidate |-> "a"], [candidate |-> "b"]}

\* a <= b on floats: false when either is NaN.
FloatLe(a, b) ==
    /\ a.k # "nan"
    /\ b.k # "nan"
    /\ \/ a.k = "-inf"
       \/ b.k = "inf"
       \/ (a.k = "fin" /\ b.k = "fin" /\ a.v <= b.v)

\* a != b on floats: true when either is NaN.
FloatNe(a, b) == a.k = "nan" \/ b.k = "nan" \/ a # b

\* Lines 25-27 and 38-40: __init__
MinimumTracker == [kind |-> "min", best |-> None, evaluation |-> PosInf]
MaximumTracker == [kind |-> "max", best |-> None, evaluation |-> NegInf]

\* A call ends with the tracker as it leaves it and the value it returns.
Returns(self, ret) == [self |-> self, ret |-> ret]

\* An update that keeps the earlier candidate on an equal evaluation.
update_Strict(self, candidate, evaluation) ==
    IF \/ self.kind = "min" /\ FloatLe(evaluation, self.evaluation)
                            /\ evaluation # self.evaluation
       \/ self.kind = "max" /\ FloatLe(self.evaluation, evaluation)
                            /\ evaluation # self.evaluation
    THEN Returns([self EXCEPT !.best = candidate, !.evaluation = evaluation],
                 TRUE)
    ELSE Returns(self, FALSE)

\* Lines 29-34 and 42-47: update, dispatched on the class of self.
update(self, candidate, evaluation) ==
    IF \/ self.kind = "min" /\ FloatLe(evaluation, self.evaluation)
       \/ self.kind = "max" /\ FloatLe(self.evaluation, evaluation)
    THEN Returns([self EXCEPT !.best = candidate, !.evaluation = evaluation],
                 TRUE)
    ELSE Returns(self, FALSE)

\* A nongreedy_update that always defers to update.
nongreedy_update_Greedy(self, candidate, evaluation) ==
    update(self, candidate, evaluation)

\* Lines 16-21: nongreedy_update
nongreedy_update(self, candidate, evaluation) ==
    IF FloatNe(evaluation, self.evaluation)
    THEN update(self, candidate, evaluation)
    ELSE Returns(self, FALSE)

\* No dijkstra call is in progress.
NoCall ==
    /\ start = 1
    /\ start_cost = 0
    /\ goals = {}
    /\ orderable = TRUE
    /\ graph = None
    /\ Entry

dijkstra_vars ==
    <<inputs, edges, asked, calls, predecessor, queue, irrelevant_nodes,
      goal, goal_cost, found_goal, pc, cost, node, i, path, n, result,
      settled_cost, yielded, popped, failure, call_no, first_result>>

InitTracker ==
    /\ NoCall
    /\ tracker \in {MinimumTracker, MaximumTracker}
    /\ tracker_ret = None
    /\ offered = {}
    /\ app = None
    /\ TimerIdle

\* tracker.update(candidate, evaluation)
Update ==
    /\ Cardinality(offered) < MaxOffers
    /\ \E candidate \in Candidates, evaluation \in Evaluations :
          LET r == update(tracker, candidate, evaluation)
          IN /\ <<"update", candidate, evaluation>> \notin offered
             /\ tracker' = r.self
             /\ tracker_ret' = r.ret
             /\ offered' = offered \cup {<<"update", candidate, evaluation>>}
             /\ app' = [op |-> "update", self |-> tracker,
                        candidate |-> candidate, evaluation |-> evaluation]
    /\ UNCHANGED <<dijkstra_vars, timer_vars>>

\* tracker.nongreedy_update(candidate, evaluation)
NongreedyUpdate ==
    /\ Cardinality(offered) < MaxOffers
    /\ \E candidate \in Candidates, evaluation \in Evaluations :
          LET r == nongreedy_update(tracker, candidate, evaluation)
          IN /\ <<"nongreedy_update", candidate, evaluation>> \notin offered
             /\ tracker' = r.self
             /\ tracker_ret' = r.ret
             /\ offered' =
                   offered \cup {<<"nongreedy_update", candidate, evaluation>>}
             /\ app' = [op |-> "nongreedy_update", self |-> tracker,
                        candidate |-> candidate, evaluation |-> evaluation]
    /\ UNCHANGED <<dijkstra_vars, timer_vars>>

NextTracker ==
    \/ Update
    \/ NongreedyUpdate

SpecTracker == InitTracker /\ [][NextTracker]_vars

\* The last call was nongreedy_update.
AfterNongreedy == app # None /\ app.op = "nongreedy_update"

\* Two floats are the same value (NaN is no value).
SameValue(a, b) == a.k # "nan" /\ a = b

(* C16: nongreedy_update with an evaluation equal to the tracker's current  *)
(* evaluation returns False and leaves best and evaluation as they were;    *)
(* with any other evaluation it leaves the tracker and returns the value    *)
(* that update with the same arguments does.                                *)
C16_NongreedyUpdate ==
    AfterNongreedy =>
        IF SameValue(app.evaluation, app.self.evaluation)
        THEN /\ tracker_ret = FALSE
             /\ tracker.best = app.self.best
             /\ tracker.evaluation = app.self.evaluation
        ELSE /\ tracker = update(app.self, app.candidate, app.evaluation).self
             /\ tracker_ret =
                   update(app.self, app.candidate, app.evaluation).ret

\* nongreedy_update has kept the earlier candidate on an equal evaluation,
\* where update would have replaced it.
C16_Witness ==
    /\ AfterNongreedy
    /\ SameValue(app.evaluation, app.self.evaluation)
    /\ app.self.best # None
    /\ app.candidate # app.self.best
    /\ update(app.self, app.candidate, app.evaluation).ret

\* ---- Interval (src/pyutils/intervals.py) --------------------------------

\* Numbers are counted in halves: bounds and split values lie on the even
\* points, members x on every point, so that the midpoint of two bounds and
\* points outside every interval are among them.
BoundValues == {0, 2, 4}
Points == -1 .. 5

\* Lines 35-37: class Bound
Bound == {"OPEN", "CLOSED"}

\* Lines 45-48: the fields of the dataclass.
Interval(lower_bound_type, lower_bound, upper_bound, upper_bound_type) ==
    [lower_bound_type |-> lower_bound_type, lower_bound |-> lower_bound,
     upper_bound |-> upper_bound, upper_bound_type |-> upper_bound_type]

Intervals ==
    {Interval(lt, l, u, ut) : lt \in Bound, l \in BoundValues,
                              u \in BoundValues, ut \in Bound}

\* A float given where an Interval may be given.
Float(v) == [float |-> v]

isinstance_Interval(other) == "lower_bound" \in DOMAIN other

\* Lines 50-54: __contains__
contains(self, x) ==
    IF self.lower_bound <= x /\ x <= self.upper_bound
    THEN /\ (self.lower_bound_type = "CLOSED" \/ self.lower_bound < x)
         /\ (self.upper_bound_type = "CLOSED" \/ x < self.upper_bound)
    ELSE FALSE

\* An emptiness test that looks at the order of the bounds only.
is_empty_ByOrder(self) == self.lower_bound > self.upper_bound

\* Lines 84-88: is_empty
is_empty(self) ==
    \/ self.lower_bound > self.upper_bound
    \/ /\ (self.upper_bound_type = "OPEN" \/ self.lower_bound_type = "OPEN")
       /\ self.lower_bound = self.upper_bound

\* A call returns a value or fails an assert.
AssertionError == [raised |-> TRUE, value |-> FALSE]
Value(v) == [raised |-> FALSE, value |-> v]

\* A comparison that ignores the bound types.
lt_ByValue(self, other) ==
    IF is_empty(self) THEN AssertionError
    ELSE IF isinstance_Interval(other)
    THEN IF is_empty(other) THEN AssertionError
         ELSE Value(self.upper_bound < other.lower_bound)
    ELSE Value(self.upper_bound < other.float)

\* Lines 121-127: __lt__
lt(self, other) ==
    IF is_empty(self) THEN AssertionError
    ELSE IF isinstance_Interval(other)
    THEN IF is_empty(other) THEN AssertionError
         ELSE Value(\/ self.upper_bound < other.lower_bound
                    \/ /\ self.upper_bound = other.lower_bound
                       /\ \/ self.upper_bound_type = "OPEN"
                          \/ other.lower_bound_type = "OPEN")
    ELSE Value(\/ self.upper_bound < other.float
               \/ /\ self.upper_bound = other.float
                  /\ self.upper_bound_type = "OPEN")

\* Lines 129-135: __gt__
gt(self, other) ==
    IF is_empty(self) THEN AssertionError
    ELSE IF isinstance_Interval(other)
    THEN IF is_empty(other) THEN AssertionError
         ELSE Value(\/ self.lower_bound > other.upper_bound
                    \/ /\ self.lower_bound = other.upper_bound
                       /\ \/ self.lower_bound_type = "OPEN"
                          \/ other.upper_bound_type = "OPEN")
    ELSE Value(\/ self.lower_bound > other.float
               \/ /\ self.lower_bound = other.float
                  /\ self.lower_bound_type = "OPEN")

\* Line 145: itertools.pairwise(values)
pairwise(values) ==
    [j \in 1..(Len(values) - 1) |-> <<values[j], values[j + 1]>>]

\* A split whose inner bounds are all of the type lower_bounds.
split_OneBoundType(self, values, upper_bounds, lower_bounds) ==
    IF Len(values) = 0 THEN <<self>>
    ELSE <<Interval(self.lower_bound_type, self.lower_bound, values[1],
                    lower_bounds)>>
         \o [j \in 1..(Len(values) - 1) |->
               Interval(lower_bounds, pairwise(values)[j][1],
                        pairwise(values)[j][2], lower_bounds)]
         \o <<Interval(lower_bounds, values[Len(values)], self.upper_bound,
                       self.upper_bound_type)>>

\* Lines 137-147: split, the intervals it yields in order.
split(self, values, upper_bounds, lower_bounds) ==
    IF Len(values) = 0 THEN <<self>>
    ELSE <<Interval(self.lower_bound_type, self.lower_bound, values[1],
                    upper_bounds)>>
         \o [j \in 1..(Len(values) - 1) |->
               Interval(lower_bounds, pairwise(values)[j][1],
                        pairwise(values)[j][2], upper_bounds)]
         \o <<Interval(lower_bounds, values[Len(values)], self.upper_bound,
                       self.upper_bound_type)>>

\* The lists of values to split at.
ValueLists == UNION {[1..m -> BoundValues] : m \in 0..2}

\* No application yet: each behaviour applies one operation once.
InitInterval ==
    /\ NoCall
    /\ tracker = None
    /\ tracker_ret = None
    /\ offered = {}
    /\ app = None
    /\ TimerIdle

\* interval.is_empty
IsEmpty ==
    /\ app = None
    /\ \E self \in Intervals :
          app' = [op |-> "is_empty", self |-> self, result |-> is_empty(self)]
    /\ UNCHANGED <<dijkstra_vars, tracker, tracker_ret, offered, timer_vars>>

\* self < other
Lt ==
    /\ app = None
    /\ \E self \in Intervals :
          \E other \in Intervals \cup {Float(v) : v \in Points} :
             app' = [op |-> "lt", self |-> self, other |-> other,
                     result |-> lt(self, other)]
    /\ UNCHANGED <<dijkstra_vars, tracker, tracker_ret, offered, timer_vars>>

\* self > other
Gt ==
    /\ app = None
    /\ \E self \in Intervals :
          \E other \in Intervals \cup {Float(v) : v \in Points} :
             app' = [op |-> "gt", self |-> self, other |-> other,
                     result |-> gt(self, other)]
    /\ UNCHANGED <<dijkstra_vars, tracker, tracker_ret, offered, timer_vars>>

\* list(self.split(values, upper_bounds, lower_bounds))
Split ==
    /\ app = None
    /\ \E self \in Intervals, values \in ValueLists :
          \E upper_bounds \in Bound, lower_bounds \in Bound :
             app' = [op |-> "split", self |-> self, values |-> values,
                     upper_bounds |-> upper_bounds,
                     lower_bounds |-> lower_bounds,
                     result |-> split(self, values, upper_bounds,
                                      lower_bounds)]
    /\ UNCHANGED <<dijkstra_vars, tracker, tracker_ret, offered, timer_vars>>

\* Intervals whose bounds may lie between two integers: the even points
\* are the integers 0, 1, 2, the odd points the halves between them.
FineIntervals ==
    {Interval(lbt, l, u, ubt) :
        lbt \in Bound, l \in 0..4, u \in 0..4, ubt \in Bound}

\* math.ceil and math.floor of a number counted in halves, in halves.
ceil(v) == IF v % 2 = 0 THEN v ELSE v + 1
floor(v) == v - (v % 2)

\* A lowest_contained_int that takes an OPEN lower bound for a member.
lowest_contained_int_NoStep(self) ==
    LET res == ceil(self.lower_bound)
    IN IF \/ res < self.upper_bound
          \/ res = self.upper_bound /\ self.upper_bound_type = "CLOSED"
       THEN Value(res)
       ELSE None

\* Lines 95-102: lowest_contained_int (result += 1 is two halves)
lowest_contained_int(self) ==
    LET ceiled == ceil(self.lower_bound)
        res == IF ceiled = self.lower_bound
                  /\ self.lower_bound_type = "OPEN"
               THEN ceiled + 2 ELSE ceiled
    IN IF \/ res < self.upper_bound
          \/ res = self.upper_bound /\ self.upper_bound_type = "CLOSED"
       THEN Value(res)
       ELSE None

\* Lines 104-111: highest_contained_int
highest_contained_int(self) ==
    LET floored == floor(self.upper_bound)
        res == IF floored = self.upper_bound
                  /\ self.upper_bound_type = "OPEN"
               THEN floored - 2 ELSE floored
    IN IF \/ res > self.lower_bound
          \/ res = self.lower_bound /\ self.lower_bound_type = "CLOSED"
       THEN Value(res)
       ELSE None

\* interval.lowest_contained_int()
LowestContainedInt ==
    /\ app = None
    /\ \E self \in FineIntervals :
          app' = [op |-> "lowest_contained_int", self |-> self,
                  result |-> lowest_contained_int(self)]
    /\ UNCHANGED <<dijkstra_vars, tracker, tracker_ret, offered, timer_vars>>

\* interval.highest_contained_int()
HighestContainedInt ==
    /\ app = None
    /\ \E self \in FineIntervals :
          app' = [op |-> "highest_contained_int", self |-> self,
                  result |-> highest_contained_int(self)]
    /\ UNCHANGED <<dijkstra_vars, tracker, tracker_ret, offered, timer_vars>>

NextInterval ==
    \/ IsEmpty
    \/ Lt
    \/ Gt
    \/ Split
    \/ LowestContainedInt
    \/ HighestContainedInt

SpecInterval == InitInterval /\ [][NextInterval]_vars

\* The last application was op.
Applied(op) == app # None /\ app.op = op

\* values is in ascending order.
Ascending(values) ==
    \A j \in 1..(Len(values) - 1) : values[j] <= values[j + 1]

\* The pieces of a split that x is a member of.
PiecesWith(x) == {j \in DOMAIN app.result : contains(app.result[j], x)}

(* C17: split yields len(values)+1 intervals, the interval itself when      *)
(* values is empty; the first keeps the original lower bound and its type,  *)
(* the last the original upper bound and its type; and when values is       *)
(* ascending, every value is a member of the interval, and upper_bounds and *)
(* lower_bounds are one OPEN and one CLOSED, every x is a member of the     *)
(* interval if and only if it is a member of exactly one piece.             *)
C17_SplitPartitions ==
    Applied("split") =>
        LET pieces == app.result
            first == pieces[1]
            last == pieces[Len(pieces)]
        IN /\ Len(pieces) = Len(app.values) + 1
           /\ app.values = <<>> => pieces = <<app.self>>
           /\ first.lower_bound = app.self.lower_bound
           /\ first.lower_bound_type = app.self.lower_bound_type
           /\ last.upper_bound = app.self.upper_bound
           /\ last.upper_bound_type = app.self.upper_bound_type
           /\ ( /\ Ascending(app.values)
                /\ \A j \in DOMAIN app.values :
                      contains(app.self, app.values[j])
                /\ app.upper_bounds # app.lower_bounds )
              => \A x \in Points :
                    contains(app.self, x) <=> Cardinality(PiecesWith(x)) = 1

\* A split at two different members into three pieces, none of them empty.
C17_Witness ==
    /\ Applied("split")
    /\ Len(app.values) = 2
    /\ app.values[1] < app.values[2]
    /\ \A j \in DOMAIN app.values : contains(app.self, app.values[j])
    /\ app.upper_bounds # app.lower_bounds
    /\ \A j \in DOMAIN app.result : ~is_empty(app.result[j])

(* C18: for non-empty intervals A and B, A < B exactly when B > A, never    *)
(* both A < B and A > B, and A < B exactly when A's upper bound is below    *)
(* B's lower bound or equals it with at least one of the two bounds OPEN;   *)
(* when A or B is empty, A < B and A > B fail with AssertionError.          *)
C18_Comparison ==
    (Applied("lt") /\ isinstance_Interval(app.other)) =>
        LET A == app.self
            B == app.other
        IN IF is_empty(A) \/ is_empty(B)
           THEN app.result.raised /\ gt(A, B).raised
           ELSE /\ ~app.result.raised
                /\ ~gt(B, A).raised
                /\ app.result.value <=> gt(B, A).value
                /\ ~(app.result.value /\ gt(A, B).value)
                /\ app.result.value <=>
                      \/ A.upper_bound < B.lower_bound
                      \/ /\ A.upper_bound = B.lower_bound
                         /\ "OPEN" \in {A.upper_bound_type, B.lower_bound_type}

\* Two non-empty intervals that touch, one of the touching bounds OPEN.
C18_Witness ==
    /\ Applied("lt")
    /\ isinstance_Interval(app.other)
    /\ ~app.result.raised
    /\ app.result.value
    /\ app.self.upper_bound = app.other.lower_bound

(* C19: is_empty is true if and only if no x of the grid (which holds both  *)
(* bounds and their midpoint) is a member: true when lower > upper or when  *)
(* lower = upper with a bound OPEN, false when lower < upper and for the    *)
(* closed point interval.                                                   *)
C19_EmptyIffNoMember ==
    Applied("is_empty") =>
        LET I == app.self
        IN /\ app.result <=> ~\E x \in Points : contains(I, x)
           /\ I.lower_bound > I.upper_bound => app.result
           /\ ( /\ I.lower_bound = I.upper_bound
                /\ "OPEN" \in {I.lower_bound_type, I.upper_bound_type} )
              => app.result
           /\ I.lower_bound < I.upper_bound => ~app.result
           /\ ( /\ I.lower_bound = I.upper_bound
                /\ I.lower_bound_type = "CLOSED"
                /\ I.upper_bound_type = "CLOSED" )
              => ~app.result

\* A point interval with an OPEN bound is empty.
C19_Witness ==
    /\ Applied("is_empty")
    /\ app.result
    /\ app.self.lower_bound = app.self.upper_bound

\* ---- HexVec.rotated (src/pyutils/geo2d.py, src/pyutils/geometry/hex2d.py)

\* Coordinates of the vectors and numbers of turns that are tried.
HexRange == -2 .. 2
Turns == -7 .. 7

\* _HexCoords.__init__ with three coordinates, called as HexVec(x, y, z).
HexVec(x, y, z) == [class |-> "HexVec", x |-> x, y |-> y, z |-> z]

\* _HexCoords.__init__ with three coordinates, called as HexPoint(x, y, z).
HexPoint(x, y, z) == [class |-> "HexPoint", x |-> x, y |-> y, z |-> z]

\* The vectors with x + y + z = 0.
HexVecs == {HexVec(x, y, -(x + y)) : x \in HexRange, y \in HexRange}

\* HexVec.__neg__
neg(self) == HexVec(-self.x, -self.y, -self.z)

\* (-1) ** k for k >= 0
RECURSIVE MinusOnePow(_)
MinusOnePow(k) == IF k = 0 THEN 1 ELSE -1 * MinusOnePow(k - 1)

\* A rotation that never flips the sign.
rotated_NoFlip(self, turns) ==
    LET v == <<self.x, self.y, self.z>>
    IN HexVec(v[(turns % 3) + 1], v[((turns + 1) % 3) + 1],
              v[((turns + 2) % 3) + 1])

\* geo2d.py lines 469-473: rotated
rotated(self, turns) ==
    LET f == IF turns % 2 # 0 THEN -1 ELSE 1
        v == <<f * self.x, f * self.y, f * self.z>>
    IN HexVec(v[(turns % 3) + 1], v[((turns + 1) % 3) + 1],
              v[((turns + 2) % 3) + 1])

\* geometry/hex2d.py lines 94-102: rotated
rotated_hex2d(self, turns) ==
    LET f == IF turns < 0 THEN MinusOnePow(-turns) ELSE MinusOnePow(turns)
        v == <<f * self.x, f * self.y, f * self.z>>
    IN HexVec(v[(turns % 3) + 1], v[((turns + 1) % 3) + 1],
              v[((turns + 2) % 3) + 1])

\* rotated as the module impl defines it.
rotated_in(impl, self, turns) ==
    IF impl = "geo2d" THEN rotated(self, turns)
    ELSE rotated_hex2d(self, turns)

\* No application yet: each behaviour applies one operation once.
InitHex ==
    /\ NoCall
    /\ tracker = None
    /\ tracker_ret = None
    /\ offered = {}
    /\ app = None
    /\ TimerIdle

\* v.rotated(turns)
Rotated ==
    /\ app = None
    /\ \E impl \in {"geo2d", "hex2d"}, self \in HexVecs, turns \in Turns :
          app' = [op |-> "rotated", impl |-> impl, self |-> self,
                  turns |-> turns, result |-> rotated_in(impl, self, turns)]
    /\ UNCHANGED <<dijkstra_vars, tracker, tracker_ret, offered, timer_vars>>

\* v.rotated(a).rotated(b)
RotatedTwice ==
    /\ app = None
    /\ \E impl \in {"geo2d", "hex2d"}, self \in HexVecs :
          \E a \in Turns, b \in Turns :
             app' = [op |-> "rotated.rotated", impl |-> impl, self |-> self,
                     a |-> a, b |-> b,
                     result |-> rotated_in(impl,
                                           rotated_in(impl, self, a), b)]
    /\ UNCHANGED <<dijkstra_vars, tracker, tracker_ret, offered, timer_vars>>

\* Coordinates given to the constructors and to the arithmetic.
HexSmall == -1 .. 1

\* The values the constructor accepts with three coordinates: it stores
\* what it is given (geo2d.py line 399, hex2d.py line 36).
HexPoints3 == {HexPoint(x, y, z) : x \in HexSmall, y \in HexSmall, z \in HexSmall}
HexVecs3 == {HexVec(x, y, z) : x \in HexSmall, y \in HexSmall, z \in HexSmall}

\* geo2d.py line 399 with z left out: z = -(x + y).  hex2d.py has no
\* constructor with two coordinates.
HexCoords2(class, x, y) == [class |-> class, x |-> x, y |-> y, z |-> -(x + y)]

\* HexPoint.__add__
add(self, other) ==
    HexPoint(self.x + other.x, self.y + other.y, self.z + other.z)

\* HexPoint.__sub__
sub(self, other) ==
    HexVec(self.x - other.x, self.y - other.y, self.z - other.z)

\* HexVec.__rmul__
rmul(self, other) == HexVec(other * self.x, other * self.y, other * self.z)

\* HexPoint(x, y) or HexVec(x, y), geo2d only
Construct2 ==
    /\ app = None
    /\ \E class \in {"HexPoint", "HexVec"}, x \in HexSmall, y \in HexSmall :
          app' = [op |-> "init2", impl |-> "geo2d",
                  result |-> HexCoords2(class, x, y)]
    /\ UNCHANGED <<dijkstra_vars, tracker, tracker_ret, offered, timer_vars>>

\* HexPoint(x, y, z) or HexVec(x, y, z)
Construct3 ==
    /\ app = None
    /\ \E impl \in {"geo2d", "hex2d"}, v \in HexPoints3 \cup HexVecs3 :
          app' = [op |-> "init3", impl |-> impl, result |-> v]
    /\ UNCHANGED <<dijkstra_vars, tracker, tracker_ret, offered, timer_vars>>

\* point + vec
Add ==
    /\ app = None
    /\ \E impl \in {"geo2d", "hex2d"}, self \in HexPoints3, other \in HexVecs3 :
          app' = [op |-> "add", impl |-> impl, self |-> self,
                  other |-> other, result |-> add(self, other)]
    /\ UNCHANGED <<dijkstra_vars, tracker, tracker_ret, offered, timer_vars>>

\* point - point
Sub ==
    /\ app = None
    /\ \E impl \in {"geo2d", "hex2d"}, self \in HexPoints3,
          other \in HexPoints3 :
          app' = [op |-> "sub", impl |-> impl, self |-> self,
                  other |-> other, result |-> sub(self, other)]
    /\ UNCHANGED <<dijkstra_vars, tracker, tracker_ret, offered, timer_vars>>

\* -vec
Neg ==
    /\ app = None
    /\ \E impl \in {"geo2d", "hex2d"}, self \in HexVecs3 :
          app' = [op |-> "neg", impl |-> impl, self |-> self,
                  result |-> neg(self)]
    /\ UNCHANGED <<dijkstra_vars, tracker, tracker_ret, offered, timer_vars>>

\* scalar * vec
RMul ==
    /\ app = None
    /\ \E impl \in {"geo2d", "hex2d"}, self \in HexVecs3, other \in HexRange :
          app' = [op |-> "rmul", impl |-> impl, self |-> self,
                  other |-> other, result |-> rmul(self, other)]
    /\ UNCHANGED <<dijkstra_vars, tracker, tracker_ret, offered, timer_vars>>

\* vec.rotated(turns) on a vector as the constructor accepts it
RotatedAny ==
    /\ app = None
    /\ \E impl \in {"geo2d", "hex2d"}, self \in HexVecs3, turns \in Turns :
          app' = [op |-> "rotated any", impl |-> impl, self |-> self,
                  turns |-> turns, result |-> rotated_in(impl, self, turns)]
    /\ UNCHANGED <<dijkstra_vars, tracker, tracker_ret, offered, timer_vars>>

NextHex ==
    \/ Rotated
    \/ RotatedTwice
    \/ Construct2
    \/ Construct3
    \/ Add
    \/ Sub
    \/ Neg
    \/ RMul
    \/ RotatedAny

SpecHex == InitHex /\ [][NextHex]_vars

(* C20: for every HexVec v with x + y + z = 0 and every integer n, negative *)
(* ones included, in geo2d and in geometry.hex2d: v.rotated(n) is           *)
(* v.rotated(n mod 6), v.rotated(0) is v, v.rotated(3) is -v, and           *)
(* v.rotated(a).rotated(b) is v.rotated(a + b).                             *)
C20_RotationGroup ==
    /\ Applied("rotated") =>
          /\ app.result = rotated_in(app.impl, app.self, app.turns % 6)
          /\ app.turns = 0 => app.result = app.self
          /\ app.turns = 3 => app.result = neg(app.self)
    /\ Applied("rotated.rotated") =>
          app.result = rotated_in(app.impl, app.self, app.a + app.b)

\* Two negative numbers of turns whose sum is odd, on a vector other than 0.
C20_Witness ==
    /\ Applied("rotated.rotated")
    /\ app.a < 0
    /\ app.b < 0
    /\ (app.a + app.b) % 2 = 1
    /\ app.self # HexVec(0, 0, 0)
    /\ app.result # app.self

\* The coordinates of a hex value add up to zero.
is_valid(self) == self.x + self.y + self.z = 0

(* C21: every HexPoint and HexVec that a constructor has accepted, with     *)
(* two or with three coordinates, and every result of point + vec,          *)
(* point - point, -vec, scalar * vec and vec.rotated(n) has x + y + z = 0.  *)
C21_HexInvariant == app # None => is_valid(app.result)

\* ---- dijkstra: the frontier and the records ------------------------------

\* The entries of a list, counted.
BagOf(seq) ==
    [e \in {seq[k] : k \in DOMAIN seq} |->
        Cardinality({k \in DOMAIN seq : seq[k] = e})]

\* This step pops an entry (line 44) without a collaborator failing.
PopStep == popped' # popped /\ failure' = failure

\* The entry that this step pops.
PoppedNow == popped'[Len(popped')]

(* C22: a pop of an entry whose node is no goal and is already settled      *)
(* discards the entry: the predecessor map, the settled set and the other   *)
(* frontier entries stay as they are, get_edges is not called, and the      *)
(* entry's cost is not below the cost at which its node was settled.        *)
C22_StaleEntryDiscarded ==
    [][(PopStep /\ ~is_goal(node') /\ node' \in irrelevant_nodes) =>
        /\ predecessor' = predecessor
        /\ irrelevant_nodes' = irrelevant_nodes
        /\ BagOf(queue') (+) SetToBag({PoppedNow}) = BagOf(queue)
        /\ calls' = calls
        /\ asked' = asked
        /\ edges' = edges
        /\ pc' = "loop"
        /\ settled_cost[node'] <= cost']_vars

\* A stale entry that cost more than the entry its node was settled with,
\* popped while other entries wait.
C22_Witness ==
    /\ pc = "loop"
    /\ Len(popped) >= 3
    /\ node \in irrelevant_nodes
    /\ ~is_goal(node)
    /\ popped[Len(popped)] = <<cost, node>>
    /\ settled_cost[node] < cost
    /\ queue # <<>>

(* C23: every pop returns an entry whose accumulated cost is lowest among   *)
(* the entries then in the frontier, and the costs of the entries popped    *)
(* one after the other never decrease (edge costs are non-negative).        *)
C23_PopsInCostOrder ==
    [][popped' # popped =>
        /\ \A k \in DOMAIN queue : PoppedNow[1] <= queue[k][1]
        /\ popped # <<>> => popped[Len(popped)][1] <= PoppedNow[1]]_vars

\* Three pops of rising cost.
C23_Witness ==
    /\ Len(popped) >= 3
    /\ popped[1][1] < popped[2][1]
    /\ popped[2][1] < popped[3][1]

\* The triples of get_edges(x) that the for loop of line 54 has taken so far.
Taken(x) ==
    IF x = node /\ pc = "for" THEN i - 1
    ELSE IF x = node /\ pc = "TypeError" /\ i <= Len(edges[x]) THEN i
    ELSE Len(edges[x])

RECURSIVE SumTaken(_)
SumTaken(S) ==
    IF S = {} THEN 0
    ELSE LET x == CHOOSE y \in S : TRUE IN Taken(x) + SumTaken(S \ {x})

\* The entries pushed so far: each has been popped or is in the queue.
Pushed == Len(popped) + Len(queue)

(* C24: the number of entries ever pushed onto the frontier is at most 1    *)
(* plus the number of triples that expansions have yielded so far, so the   *)
(* frontier never holds more than 1 plus the number of edges of the graph.  *)
C24_PushesBounded ==
    /\ Pushed <= 1 + SumTaken(irrelevant_nodes)
    /\ Len(queue) <= 1 + Yielded

\* Every triple yielded was pushed; two of the entries are still waiting.
C24_Witness ==
    /\ pc = "loop"
    /\ Yielded = 3
    /\ Pushed = 4
    /\ Len(queue) = 2

(* C25: every node with a frontier entry, the initial entry of start apart, *)
(* has a predecessor record; the predecessor named in a record is a settled *)
(* node; and the backward walk never looks up a node without a record.      *)
C25_RecordsSupportWalk ==
    /\ \A k \in DOMAIN queue :
          queue[k] = <<start_cost, start>> \/ queue[k][2] \in DOMAIN predecessor
    /\ \A x \in DOMAIN predecessor : predecessor[x][1] \in irrelevant_nodes
    /\ pc # "KeyError"
    /\ (pc = "walk" /\ WalkContinues) => n \in DOMAIN predecessor

\* The walk has followed two records back to start, which has no record.
C25_Witness ==
    /\ pc = "walk"
    /\ Len(path) = 2
    /\ n = start
    /\ start \notin DOMAIN predecessor

\* The nodes of the walk so far: the goal and the nodes stepped back to.
WalkNodes == [k \in 1..Len(path) |-> path[k][4]]

\* No element of the list s occurs twice.
NoRepeat(s) == \A j, k \in DOMAIN s : j # k => s[j] # s[k]

(* C26: with non-negative edge costs and the default start_cost of zero,    *)
(* the walk never meets a node twice, so the node list returned holds no    *)
(* node twice and start only as its first element, also on graphs with      *)
(* cycles and zero-cost edges.                                              *)
C26_NoNodeTwice ==
    start_cost = 0 =>
        /\ pc = "walk" => NoRepeat(WalkNodes) /\ start \notin
                              {WalkNodes[k] : k \in DOMAIN WalkNodes}
        /\ Found => NoRepeat(result[1]) /\ result[1][1] = start

\* A path of two steps returned on a graph with a zero-cost cycle.
C26_Witness ==
    /\ Found
    /\ start_cost = 0
    /\ Len(result[1]) = 3
    /\ \E x \in Nodes : \E j \in DOMAIN edges[x] :
          edges[x][j][1] = x /\ edges[x][j][2] = 0

\* ---- OptimumTracker: what it holds after a sequence of calls ------------

\* The evaluations offered so far, and whether all of them are numbers.
OfferedEvaluations == {o[3] : o \in offered}
NumbersOffered == offered # {} /\ NaN \notin OfferedEvaluations

\* a is at least as good as b for the tracker: lower for a MinimumTracker,
\* higher for a MaximumTracker.
AsGood(a, b) == IF tracker.kind = "min" THEN FloatLe(a, b) ELSE FloatLe(b, a)

\* The minimum (MinimumTracker) or maximum (MaximumTracker) offered.
Optimum ==
    CHOOSE e \in OfferedEvaluations : \A f \in OfferedEvaluations : AsGood(e, f)

\* The evaluation a tracker starts with: math.inf or -math.inf.
Initial == IF tracker.kind = "min" THEN PosInf ELSE NegInf

(* C27: after a non-empty sequence of update and nongreedy_update calls     *)
(* with numbers as evaluations (+infinity and -infinity among them),        *)
(* evaluation is the minimum offered (the maximum for a MaximumTracker)     *)
(* and best is a candidate that was offered with exactly that evaluation.   *)
C27_TracksOptimum ==
    NumbersOffered =>
        /\ tracker.evaluation = Optimum
        /\ \E o \in offered : o[2] = tracker.best /\ o[3] = Optimum

(* C27 as amended: evaluation is the optimum offered; best is a candidate   *)
(* offered with exactly that evaluation, or is still None when the optimum  *)
(* offered is the evaluation the tracker started with and no update call    *)
(* has offered it.                                                          *)
C27_TracksOptimumOnceSet ==
    NumbersOffered =>
        /\ tracker.evaluation = Optimum
        /\ IF Optimum = Initial /\ ~\E o \in offered :
                                       o[1] = "update" /\ o[3] = Initial
           THEN tracker.best = None
           ELSE \E o \in offered : o[2] = tracker.best /\ o[3] = Optimum

\* Three calls, the optimum offered twice: once kept, once replaced.
C27_Witness ==
    /\ Cardinality(offered) = 3
    /\ NumbersOffered
    /\ Optimum.k = "fin"
    /\ Cardinality({o \in offered : o[3] = Optimum}) = 2
    /\ \E o \in offered : o[1] = "nongreedy_update" /\ o[3] = Optimum
                          /\ o[2] # tracker.best

\* ---- CumulativeTimer (src/pyutils/timer.py) -----------------------------

\* Bounds: the clock, the start calls that succeed, nested with-blocks.
MaxClock == 3
MaxEvents == 3
MaxDepth == 2

\* Lines 8-12: __init__
CumulativeTimer ==
    [total_time |-> 0, number_of_events_timed |-> 0,
     start_time_of_current_event |-> None]

\* A start time that is set: a float, not None.
At(t) == [time |-> t]

\* The timer is timing an event.
running(self) == self.start_time_of_current_event # None

\* A call ends with the timer as it leaves it, raising an Exception or not.
Ends(self, raised) == [self |-> self, raised |-> raised]

\* A start that does not look whether the timer is running.
timer_start_Restart(self, t) ==
    Ends([self EXCEPT !.start_time_of_current_event = At(t)], FALSE)

\* Lines 14-17: start, time.time() being t
timer_start(self, t) ==
    IF self.start_time_of_current_event # None
    THEN Ends(self, TRUE)
    ELSE Ends([self EXCEPT !.start_time_of_current_event = At(t)], FALSE)

\* A stop that forgets to count the event.
timer_stop_NoCount(self, t) ==
    IF self.start_time_of_current_event = None
    THEN Ends(self, TRUE)
    ELSE Ends([self EXCEPT
                 !.total_time = @ + t - self.start_time_of_current_event.time,
                 !.start_time_of_current_event = None], FALSE)

\* Lines 19-24: stop, time.time() being t
timer_stop(self, t) ==
    IF self.start_time_of_current_event = None
    THEN Ends(self, TRUE)
    ELSE Ends([self EXCEPT
                 !.total_time = @ + t - self.start_time_of_current_event.time,
                 !.start_time_of_current_event = None,
                 !.number_of_events_timed = @ + 1], FALSE)

\* time.time(): the clock does not run backwards.
time == {t \in clock .. clock + 1 : t <= MaxClock}

\* The call op on the timer self has ended, raising or not.
Called(op, self, raised) == [op |-> op, self |-> self, raised |-> raised]

InitTimer ==
    /\ NoCall
    /\ tracker = None
    /\ tracker_ret = None
    /\ offered = {}
    /\ app = None
    /\ timer = CumulativeTimer
    /\ timer_ret = None
    /\ clock = 0
    /\ starts = 0
    /\ stops = 0
    /\ depth = 0

\* timer.start(), outside or inside a with-block
Start ==
    /\ starts < MaxEvents
    /\ \E t \in time :
          LET r == timer_start(timer, t)
          IN /\ timer' = r.self
             /\ timer_ret' = Called("start", timer, r.raised)
             /\ starts' = IF r.raised THEN starts ELSE starts + 1
             /\ clock' = IF r.raised THEN clock ELSE t
    /\ UNCHANGED <<dijkstra_vars, tracker, tracker_ret, offered, app, stops,
                   depth>>

\* timer.stop(), outside or inside a with-block
Stop ==
    /\ \E t \in time :
          LET r == timer_stop(timer, t)
          IN /\ timer' = r.self
             /\ timer_ret' = Called("stop", timer, r.raised)
             /\ stops' = IF r.raised THEN stops ELSE stops + 1
             /\ clock' = IF r.raised THEN clock ELSE t
    /\ UNCHANGED <<dijkstra_vars, tracker, tracker_ret, offered, app, starts,
                   depth>>

\* Lines 26-28: with timer: __enter__ calls start; when start raises the
\* block is not entered.
Enter ==
    /\ starts < MaxEvents
    /\ depth < MaxDepth
    /\ \E t \in time :
          LET r == timer_start(timer, t)
          IN /\ timer' = r.self
             /\ timer_ret' = Called("__enter__", timer, r.raised)
             /\ starts' = IF r.raised THEN starts ELSE starts + 1
             /\ clock' = IF r.raised THEN clock ELSE t
             /\ depth' = IF r.raised THEN depth ELSE depth + 1
    /\ UNCHANGED <<dijkstra_vars, tracker, tracker_ret, offered, app, stops>>

\* Lines 30-31: the body of a with-block ends or raises, __exit__ calls
\* stop and returns None, so an exception of the body goes on.
Exit ==
    /\ depth > 0
    /\ \E t \in time, body_raised \in BOOLEAN :
          LET r == timer_stop(timer, t)
          IN /\ timer' = r.self
             /\ timer_ret' = Called("__exit__", timer, r.raised \/ body_raised)
             /\ stops' = IF r.raised THEN stops ELSE stops + 1
             /\ clock' = IF r.raised THEN clock ELSE t
             /\ depth' = depth - 1
    /\ UNCHANGED <<dijkstra_vars, tracker, tracker_ret, offered, app, starts>>

NextTimer ==
    \/ Start
    \/ Stop
    \/ Enter
    \/ Exit

SpecTimer == InitTimer /\ [][NextTimer]_vars

(* C28: after any sequence of start, stop and with-block uses, failed calls *)
(* included, the number of events timed is the number of stop calls that    *)
(* succeeded; the timer is running exactly when one more start than stop    *)
(* has succeeded, and otherwise as many; and a with-block that is left,     *)
(* normally or by an exception, leaves the timer not running.               *)
C28_TimerCounts ==
    /\ timer.number_of_events_timed = stops
    /\ running(timer) <=> starts = stops + 1
    /\ ~running(timer) => starts = stops
    /\ (timer_ret # None /\ timer_ret.op = "__exit__") => ~running(timer)

\* A with-block left by an exception after a stop in its body, two events
\* timed and a failed call among the calls.
C28_Witness ==
    /\ timer_ret # None
    /\ timer_ret.op = "__exit__"
    /\ timer_ret.raised
    /\ ~running(timer_ret.self)
    /\ stops = 2
    /\ depth = 0

(* C29: start on a running timer and stop on a timer that is not running    *)
(* fail with an exception and leave the total time, the event count and     *)
(* the running state as they were.                                          *)
C29_FailedCallsChangeNothing ==
    /\ (timer_ret # None /\ timer_ret.op = "start" /\ running(timer_ret.self))
          => timer_ret.raised /\ timer = timer_ret.self
    /\ (timer_ret # None /\ timer_ret.op = "stop" /\ ~running(timer_ret.self))
          => timer_ret.raised /\ timer = timer_ret.self

\* A start that failed on a running timer that has timed an event before.
C29_Witness ==
    /\ timer_ret # None
    /\ timer_ret.op = "start"
    /\ timer_ret.raised
    /\ timer.total_time > 0
    /\ running(timer)

\* ---- Interval: the integers it contains ----------------------------------

\* The integers (even points) that are members of the interval last used.
IntMembers == {x \in -2 .. 6 : x % 2 = 0 /\ contains(app.self, x)}

Max(S) == CHOOSE m \in S : \A y \in S : y <= m

(* C30: for an interval with finite bounds, lowest_contained_int returns    *)
(* the smallest integer that is a member and highest_contained_int the      *)
(* largest, and each returns None exactly when no integer is a member       *)
(* (empty intervals and open intervals between two consecutive integers     *)
(* included).                                                               *)
C30_ContainedInts ==
    /\ Applied("lowest_contained_int") =>
          IF IntMembers = {} THEN app.result = None
          ELSE app.result # None /\ app.result.value = Min(IntMembers)
    /\ Applied("highest_contained_int") =>
          IF IntMembers = {} THEN app.result = None
          ELSE app.result # None /\ app.result.value = Max(IntMembers)

\* An interval (0, 2.0] in integers, OPEN at an integer: the lowest is 1.
C30_Witness ==
    /\ Applied("lowest_contained_int")
    /\ app.self.lower_bound_type = "OPEN"
    /\ app.self.lower_bound % 2 = 0
    /\ app.result # None
    /\ app.result.value = app.self.lower_bound + 2
    /\ Cardinality(IntMembers) = 2

====
